---- MODULE Spec2Model ----
(***************************************************************************)
(* A model of py-ledger-tools: the QIF record recognizer, field caster and *)
(* transaction builder of qif_parser.py, and the QIF -> Ledger mapping of  *)
(* qif2ledger.py.                                                          *)
(*                                                                         *)
(* The input text is the byte buffer parse() scans, modelled as a sequence *)
(* of one-character strings.  Every input drawn here is ASCII, where the   *)
(* utf-8 encode of parse() and the decode_val of _recordize map a          *)
(* character to the byte of the same value and back.  Positions are        *)
(* 0-based, as in the source.                                              *)
(***************************************************************************)
EXTENDS Integers, Sequences, FiniteSets, TLC

CR == "\r"
LF == "\n"
TAB == "\t"
SP == " "

\* the value of a named group that did not take part in the match
None == <<"<None>">>

Digits == {"0", "1", "2", "3", "4", "5", "6", "7", "8", "9"}

TTYPE_NORMAL == "NORMAL"
TTYPE_SPLIT == "SPLIT"

----------------------------------------------------------------------------
(* Sequence helpers *)

\* Python s[a:b] for 0 <= a, b (b clamped to len(s) as Python clamps it)
Slice(s, a, b) ==
    IF b > Len(s)
    THEN (IF a >= Len(s) THEN <<>> ELSE SubSeq(s, a + 1, Len(s)))
    ELSE (IF a >= b THEN <<>> ELSE SubSeq(s, a + 1, b))

\* Python s[i], 0-based
At(s, i) == s[i + 1]

All(s, S) == \A i \in 1..Len(s) : s[i] \in S

RECURSIVE IndexOf(_, _, _)
\* 1-based index of the first occurrence of c in s at or after i, 0 if none
IndexOf(s, c, i) ==
    IF i > Len(s) THEN 0
    ELSE IF s[i] = c THEN i
    ELSE IndexOf(s, c, i + 1)

RECURSIVE LineEnd(_, _)
\* the offset where '$' (re.M) can match at or after pos on the line of
\* pos: the offset of the next "\n", or the end of the text
LineEnd(text, pos) ==
    IF pos >= Len(text) THEN Len(text)
    ELSE IF At(text, pos) = LF THEN pos
    ELSE LineEnd(text, pos + 1)

\* the effect of the trailing "[\r]?" before '$' on a body that cannot
\* itself contain "\r"
StripCR(s) ==
    IF Len(s) > 0 /\ s[Len(s)] = CR THEN SubSeq(s, 1, Len(s) - 1) ELSE s

\* what follows the marker at pos on its line, less the optional "\r"
LineBody(text, pos) ==
    CHOOSE b \in {StripCR(Slice(text, pos + 1, LineEnd(text, pos)))} : TRUE

\* the marker at pos
Marker(text, pos, c) == pos < Len(text) /\ At(text, pos) = c

RECURSIVE StrToNat(_, _)
\* the digits of s read as a decimal number, acc the value read so far
StrToNat(s, acc) ==
    IF s = <<>> THEN acc
    ELSE StrToNat(Tail(s), acc * 10 + (CHOOSE d \in 0..9 : ToString(d) = Head(s)))

RECURSIVE Remove(_, _)
\* str.replace(c, "")
Remove(s, c) ==
    IF s = <<>> THEN <<>>
    ELSE IF Head(s) = c THEN Remove(Tail(s), c)
    ELSE <<Head(s)>> \o Remove(Tail(s), c)

\* int(s) for digits with optional surrounding blanks
PyInt(s) == StrToNat(Remove(s, SP), 0)

\* s without a leading "-"
Unsigned(s) == IF s # <<>> /\ Head(s) = "-" THEN Tail(s) ELSE s

\* the part of u before the "." at 1-based index dot (all of u if dot = 0)
IntPart(u, dot) == IF dot = 0 THEN u ELSE SubSeq(u, 1, dot - 1)

\* the part of u after the "." at 1-based index dot
FracPart(u, dot) == IF dot = 0 THEN <<>> ELSE SubSeq(u, dot + 1, Len(u))

----------------------------------------------------------------------------
(* Record patterns.  Each of HEADER .. END is regex.match(text, pos) for    *)
(* one compiled pattern: a match anchored at pos, with the named groups    *)
(* (groupdict), the name of the outermost group (lastgroup) and the end of *)
(* the match (span()[1]).                                                  *)

NoMatch == [matched |-> FALSE]

Match(type, dict, end) ==
    [matched |-> TRUE, type |-> type, value_dict |-> dict, end |-> end]

\* [\d,]+(\.[\d]+)? on u, whose first "." is at index dot
AmountDigits(u, dot) ==
    /\ Len(IntPart(u, dot)) >= 1
    /\ All(IntPart(u, dot), Digits \cup {","})
    /\ dot # 0 => (Len(FracPart(u, dot)) >= 1 /\ All(FracPart(u, dot), Digits))

\* -?[\d,]+(\.[\d]+)?
AmountLang(s) ==
    \E u \in {Unsigned(s)} :
        \E dot \in {IndexOf(u, ".", 1)} : AmountDigits(u, dot)

\* (?P<name>marker(?P<value>.*))[\r]?$ : the greedy ".*" runs to the end of
\* the line ("." matches every byte but "\n", "\r" included), and "[\r]?"
\* then matches the empty string
General(name, marker, text, pos) ==
    IF Marker(text, pos, marker)
    THEN Match(name,
               (name :> Slice(text, pos, LineEnd(text, pos)))
               @@ ("value" :> Slice(text, pos + 1, LineEnd(text, pos))),
               LineEnd(text, pos))
    ELSE NoMatch

HEADER(text, pos) ==
    IF Slice(text, pos, pos + 5) = <<"!", "T", "y", "p", "e">>
    THEN Match("HEADER",
               [HEADER |-> Slice(text, pos, LineEnd(text, pos)),
                type |-> Slice(text, pos + 5, LineEnd(text, pos))],
               LineEnd(text, pos))
    ELSE NoMatch

\* (?P<month>[ 01]?[\d])
MonthOk(mon) ==
    IF Len(mon) = 1 THEN mon[1] \in Digits
    ELSE Len(mon) = 2 /\ mon[1] \in {SP, "0", "1"} /\ mon[2] \in Digits

\* (?P<day>[ 0123][\d])
DayOk(day) ==
    Len(day) = 2 /\ day[1] \in {SP, "0", "1", "2", "3"} /\ day[2] \in Digits

\* \'(?P<year_short>[ ]?\d[\d]?)
YearShortOk(sep, yr) ==
    /\ sep = <<"'">>
    /\ IF Len(yr) = 1 THEN yr[1] \in Digits
       ELSE IF Len(yr) = 2 THEN yr[1] \in Digits \cup {SP} /\ yr[2] \in Digits
       ELSE Len(yr) = 3 /\ yr[1] = SP /\ yr[2] \in Digits /\ yr[3] \in Digits

\* /(?P<year_long>[\d]{4})
YearLongOk(sep, yr) == sep = <<"/">> /\ Len(yr) = 4 /\ All(yr, Digits)

DateFields(b, mon, day, sep, yr, e) ==
    IF MonthOk(mon) /\ DayOk(day) /\ (YearShortOk(sep, yr) \/ YearLongOk(sep, yr))
    THEN Match("DATE",
               [DATE |-> <<"D">> \o b, month |-> mon, day |-> day,
                year_short |-> IF sep = <<"'">> THEN yr ELSE None,
                year_long |-> IF sep = <<"/">> THEN yr ELSE None], e)
    ELSE NoMatch

\* the body b of a D line, whose first "/" is at 1-based index k: the month
\* holds no "/", so that is where it ends
DateAt(b, k, e) ==
    IF k = 0 THEN NoMatch
    ELSE DateFields(b, Slice(b, 0, k - 1), Slice(b, k, k + 2),
                    Slice(b, k + 2, k + 3), Slice(b, k + 3, Len(b)), e)

DATE(text, pos) ==
    IF Marker(text, pos, "D")
    THEN DateAt(LineBody(text, pos), IndexOf(LineBody(text, pos), "/", 1),
                LineEnd(text, pos))
    ELSE NoMatch

AmountMatch(name, marker, b, e) ==
    IF AmountLang(b)
    THEN Match(name, (name :> (<<marker>> \o b)) @@ ("amount" :> b), e)
    ELSE NoMatch

Amount(name, marker, text, pos) ==
    IF Marker(text, pos, marker)
    THEN AmountMatch(name, marker, LineBody(text, pos), LineEnd(text, pos))
    ELSE NoMatch

T_AMOUNT(text, pos) == Amount("T_AMOUNT", "T", text, pos)
U_AMOUNT(text, pos) == Amount("U_AMOUNT", "U", text, pos)

ClearedMatch(b, e) ==
    IF Len(b) = 1 /\ b[1] \in {"*", "c", "X", "R"}
    THEN Match("CLEARED", [CLEARED |-> <<"C">> \o b, value |-> b], e)
    ELSE NoMatch

CLEARED(text, pos) ==
    IF Marker(text, pos, "C")
    THEN ClearedMatch(LineBody(text, pos), LineEnd(text, pos))
    ELSE NoMatch

PAYEE(text, pos)    == General("PAYEE", "P", text, pos)
MEMO(text, pos)     == General("MEMO", "M", text, pos)
CATEGORY(text, pos) == General("CATEGORY", "L", text, pos)
ADDRESS(text, pos)  == General("ADDRESS", "A", text, pos)
N_REC(text, pos)    == General("N_REC", "N", text, pos)

\* the tail of SPLIT at offset p: \$(?P<amount>-?[\d,]+(\.[\d]+)?)[\r]?$
SplitAmountLine(text, p) ==
    Marker(text, p, "$") /\ AmountLang(LineBody(text, p))

\* the optional group of SPLIT at offset p: E(?P<memo>.*)[\r]?\n
SplitMemoLine(text, p) ==
    Marker(text, p, "E") /\ LineEnd(text, p) < Len(text)

\* the match of a split block at pos whose amount line is at offset p
SplitMatch(text, pos, category, memo, p) ==
    Match("SPLIT",
          [SPLIT |-> Slice(text, pos, p + 1) \o LineBody(text, p),
           category |-> category, memo |-> memo, amount |-> LineBody(text, p)],
          LineEnd(text, p))

\* SplitRest with the memo group made mandatory
SplitRestMemoRequired(text, pos, e1) ==
    IF /\ SplitMemoLine(text, e1 + 1)
       /\ SplitAmountLine(text, LineEnd(text, e1 + 1) + 1)
    THEN SplitMatch(text, pos, Slice(text, pos + 1, e1),
                    Slice(text, e1 + 2, LineEnd(text, e1 + 1)),
                    LineEnd(text, e1 + 1) + 1)
    ELSE NoMatch

\* S(?P<category>.*)[\r]?\n has matched up to the "\n" at e1; the optional
\* memo group is tried first, and without it the amount must follow at once
SplitRest(text, pos, e1) ==
    IF /\ SplitMemoLine(text, e1 + 1)
       /\ SplitAmountLine(text, LineEnd(text, e1 + 1) + 1)
    THEN SplitMatch(text, pos, Slice(text, pos + 1, e1),
                    Slice(text, e1 + 2, LineEnd(text, e1 + 1)),
                    LineEnd(text, e1 + 1) + 1)
    ELSE IF SplitAmountLine(text, e1 + 1)
    THEN SplitMatch(text, pos, Slice(text, pos + 1, e1), None, e1 + 1)
    ELSE NoMatch

SPLIT(text, pos) ==
    IF Marker(text, pos, "S") /\ LineEnd(text, pos) < Len(text)
    THEN SplitRest(text, pos, LineEnd(text, pos))
    ELSE NoMatch

END(text, pos) ==
    IF Marker(text, pos, "^") /\ LineBody(text, pos) = <<>>
    THEN Match("END", [END |-> <<"^">>], LineEnd(text, pos))
    ELSE NoMatch

\* regex.match(text, pos) clamps pos to len(text)
ClampPos(text, pos) == IF pos > Len(text) THEN Len(text) ELSE pos

\* the loop over _compiled_record_regexes at pos: the patterns in their
\* order, the first that matches wins
FirstAt(text, pos) ==
    IF HEADER(text, pos).matched THEN HEADER(text, pos)
    ELSE IF DATE(text, pos).matched THEN DATE(text, pos)
    ELSE IF T_AMOUNT(text, pos).matched THEN T_AMOUNT(text, pos)
    ELSE IF U_AMOUNT(text, pos).matched THEN U_AMOUNT(text, pos)
    ELSE IF CLEARED(text, pos).matched THEN CLEARED(text, pos)
    ELSE IF PAYEE(text, pos).matched THEN PAYEE(text, pos)
    ELSE IF MEMO(text, pos).matched THEN MEMO(text, pos)
    ELSE IF CATEGORY(text, pos).matched THEN CATEGORY(text, pos)
    ELSE IF ADDRESS(text, pos).matched THEN ADDRESS(text, pos)
    ELSE IF N_REC(text, pos).matched THEN N_REC(text, pos)
    ELSE IF SPLIT(text, pos).matched THEN SPLIT(text, pos)
    ELSE IF END(text, pos).matched THEN END(text, pos)
    ELSE NoMatch

\* the inner for loop of _recordize: the first pattern that matches
FirstMatch(text, pos) == FirstAt(text, ClampPos(text, pos))

----------------------------------------------------------------------------
(* Field casts *)

QIFRecord(type, value_dict) == [type |-> type, value_dict |-> value_dict]
QIFTransaction(type, records) == [type |-> type, records |-> records]

CastOk(record) == [ok |-> TRUE, record |-> record]
\* the cast raised ValueError
CastFail == [ok |-> FALSE]

RECURSIVE Normalize(_, _)
\* num / 10^exp with the trailing zeros of the fraction dropped
Normalize(num, exp) ==
    IF exp > 0 /\ num % 10 = 0 THEN Normalize(num \div 10, exp - 1)
    ELSE [num |-> num, exp |-> exp]

Float(neg, n) == [neg |-> neg, num |-> n.num, exp |-> n.exp]

\* the double of sign neg, integer digits ip and fraction digits fp; no
\* digit at all is the ValueError of float("") and float("-")
FloatOf(neg, ip, fp) ==
    IF Len(ip) + Len(fp) = 0 THEN [ok |-> FALSE]
    ELSE [ok |-> TRUE,
          value |-> Float(neg, Normalize(StrToNat(ip \o fp, 0), Len(fp)))]

FloatAt(neg, u, dot) == FloatOf(neg, IntPart(u, dot), FracPart(u, dot))

\* float(s) for s in -?\d*(\.\d+)? : a sign and the magnitude num / 10^exp.
\* The inputs have few digits, so the decimal read is the value of the
\* double's shortest repr; -0.0 keeps its sign, as a double does.
PyFloat(s) ==
    FloatAt(s # <<>> /\ Head(s) = "-", Unsigned(s), IndexOf(Unsigned(s), ".", 1))

IsLeap(year) == year % 4 = 0 /\ (year % 100 # 0 \/ year % 400 = 0)

DaysInMonth(year, month) ==
    IF month = 2 THEN (IF IsLeap(year) THEN 29 ELSE 28)
    ELSE IF month \in {4, 6, 9, 11} THEN 30 ELSE 31

\* datetime.date(year, month, day) raises ValueError outside these ranges
ValidDate(year, month, day) ==
    /\ year \in 1..9999
    /\ month \in 1..12
    /\ day >= 1 /\ day <= DaysInMonth(year, month)

\* a 1 or 2 digit year stands for 2000..2050 or 1951..1999
ShortYear(y) == IF y <= 50 THEN y + 2000 ELSE y + 1900

YearOf(d) ==
    IF d.year_short # None THEN ShortYear(PyInt(d.year_short))
    ELSE PyInt(d.year_long)

DateRecord(type, year, month, day) ==
    IF ValidDate(year, month, day)
    THEN CastOk(QIFRecord(type,
             [date |-> [year |-> year, month |-> month, day |-> day]]))
    ELSE CastFail

_cast_date(record) ==
    DateRecord(record.type, YearOf(record.value_dict),
               PyInt(record.value_dict.month), PyInt(record.value_dict.day))

AmountRecord(type, f) ==
    IF f.ok THEN CastOk(QIFRecord(type, [amount |-> f.value])) ELSE CastFail

_cast_amount(record) ==
    AmountRecord(record.type, PyFloat(Remove(record.value_dict.amount, ",")))

SplitRecord(type, d, f) ==
    IF ~f.ok THEN CastFail
    ELSE IF d.memo # None
    THEN CastOk(QIFRecord(type,
             [category |-> d.category, amount |-> f.value, memo |-> d.memo]))
    ELSE CastOk(QIFRecord(type, [category |-> d.category, amount |-> f.value]))

_cast_split(record) ==
    SplitRecord(record.type, record.value_dict,
                PyFloat(Remove(record.value_dict.amount, ",")))

_cast_general(record) ==
    CastOk(QIFRecord(record.type, [value |-> record.value_dict.value]))

\* _record_casts[r.type](r) when r.type is a key, r itself otherwise
_record_casts(record) ==
    IF record.type = "DATE" THEN _cast_date(record)
    ELSE IF record.type \in {"T_AMOUNT", "U_AMOUNT"} THEN _cast_amount(record)
    ELSE IF record.type \in {"CLEARED", "PAYEE", "MEMO", "CATEGORY", "ADDRESS", "N_REC"}
    THEN _cast_general(record)
    ELSE IF record.type = "SPLIT" THEN _cast_split(record)
    ELSE CastOk(record)

----------------------------------------------------------------------------
(* Bounds and inputs *)

\* most lines of an input text
MaxLines == 4
\* most changes a consumer makes to the transactions it was handed
MaxMutations == 1
\* most characters after the marker of a line cast on its own
MaxBody == 3
\* most lines of an input text that is parsed to its end under fairness
MaxFairLines == 3
\* most lines of an input text of the ledger translation
MaxLedgerLines == 3

RECURSIVE Join(_, _, _)
\* the lines, each followed by the terminator term, the last one only if
\* lastTerm
Join(lines, term, lastTerm) ==
    IF lines = <<>> THEN <<>>
    ELSE IF Len(lines) = 1
    THEN Head(lines) \o (IF lastTerm THEN term ELSE <<>>)
    ELSE Head(lines) \o term \o Join(Tail(lines), term, lastTerm)

Terminators == { <<LF>>, <<CR, LF>> }

\* the texts of at most n lines drawn from Lines
Texts(Lines, n) ==
    { Join(ls, term, lastTerm) :
        ls \in UNION { [1..k -> Lines] : k \in 0..n },
        term \in Terminators, lastTerm \in BOOLEAN }

\* the strings of at most n characters drawn from S
Strings(S, n) == UNION { [1..k -> S] : k \in 0..n }

\* lines of the texts the transaction builder is checked on
ParseLines ==
    { <<"P", "x">>, <<"^">>, <<"S", "a">>, <<"E", "m">>, <<"$", "1">>,
      <<"T", ",">>, <<"Q", "^">> }

\* lines of the texts the ledger translation is checked on
LedgerLines ==
    { <<"T", "-", "1">>, <<"T", "0">>, <<"L", "a">>, <<"L", TAB, TAB>>,
      <<"S", SP, TAB>>, <<"$", "2">>, <<"^">>, <<"T", ",">>, <<"Q">>,
      <<"D", "1", "/", SP, "2", "'", "1", "6">> }

\* single lines, for the casts
DateLines ==
    { <<"D">> \o m \o <<"/">> \o d \o y :
        m \in { <<"1">>, <<"1", "1">>, <<SP, "2">>, <<"1", "3">> },
        d \in { <<SP, "8">>, <<"3", "0">>, <<"0", "0">>, <<"2", "9">> },
        y \in { <<"'", "1", "6">>, <<"'", SP, "5">>, <<"'", "5", "1">>,
                <<"'", "5">>, <<"/", "2", "0", "1", "6">>,
                <<"/", "1", "9", "0", "0">>, <<"/", "0", "0", "0", "0">> } }

AmountLines ==
    { <<m>> \o b : m \in {"T", "U"},
                   b \in Strings({"1", "0", ",", ".", "-"}, MaxBody) }

StringLines ==
    { <<m>> \o b : m \in {"P", "M", "L", "A", "N"},
                   b \in Strings({"x", SP}, MaxBody) }

ClearedLines ==
    { <<"C">> \o b : b \in Strings({"*", "c", "X", "R", "x"}, 1) }

OtherLines ==
    { <<"^">>, <<"Q", "^">>, <<"!", "T", "y", "p", "e", ":", "x">>, <<"S", "a">> }

CastTexts ==
    { l \o t : l \in DateLines \cup AmountLines \cup StringLines
                     \cup ClearedLines \cup OtherLines,
               t \in Terminators }

----------------------------------------------------------------------------
(* State *)

VARIABLES
    text,       \* the input of parse(), the bytes scanned
    position,   \* _recordize: the cursor
    pc,         \* where control is: "recordize" (the for loop of parse()
                \* asks _recordize for a record), "parse" (the loop body
                \* runs on r) or "yielded" (parse() is suspended at its
                \* yield and the consumer runs)
    r,          \* parse: the record the for loop holds
    status,     \* "running", "done" (the generator returned) or the name
                \* of the exception that ended the run
    error,      \* the arguments of the SyntaxError message, once raised
    ttype,      \* parse: ttype
    records,    \* parse: records, a reference to a list in the heap
    heap,       \* the list objects: heap[ref] is the content of list ref
    yielded,    \* the transactions handed to the consumer (the type and a
                \* reference to the records list)
    ledger,     \* the ledger dicts qif2ledger returned, in order
    scanned,    \* history: the raw records _recordize yielded
    emitted,    \* history: each transaction as it was when yielded, and
                \* the number of consumer mutations before it
    mutations   \* history: the number of consumer mutations so far

vars == << text, position, pc, r, status, error, ttype, records, heap,
           yielded, ledger, scanned, emitted, mutations >>

NoError == [position |-> -1, text |-> <<>>]

\* r before the first record
NoRecord == [type |-> "NONE", value_dict |-> <<>>]

InitText(T) ==
    /\ text \in T
    /\ position = 0
    /\ pc = "recordize"
    /\ r = NoRecord
    /\ status = "running"
    /\ error = NoError
    /\ ttype = TTYPE_NORMAL
    /\ heap = << <<>> >>
    /\ records = 1
    /\ yielded = <<>>
    /\ ledger = <<>>
    /\ scanned = <<>>
    /\ emitted = <<>>
    /\ mutations = 0

Init == InitText(Texts(ParseLines, MaxLines))

FairInit == InitText(Texts(ParseLines, MaxFairLines))

InitCast == InitText(CastTexts)

InitLedger == InitText(Texts(LedgerLines, MaxLedgerLines))

----------------------------------------------------------------------------
(* _recordize() and parse(): the two generators, one step of either per    *)
(* action                                                                  *)

\* NextPosition without the step over the line terminator
NextPositionAtEnd(m) == m.end

\* position = m.span()[1] + 1
NextPosition(m) == m.end + 1

\* QIFRecord(m.lastgroup, decoded_dict)
RawRecord(m) == [type |-> m.type, value_dict |-> m.value_dict]

\* SyntaxErrorArgs with the text taken one character late
SyntaxErrorArgsLate(t, pos) ==
    [position |-> pos, text |-> Slice(t, pos + 1, Len(t))]

\* the message arguments of the SyntaxError: position and text[position:]
SyntaxErrorArgs(t, pos) ==
    [position |-> pos, text |-> Slice(t, pos, Len(t))]

\* elif r.type == 'SPLIT': ttype = TTYPE_SPLIT
TypeOnRecord(type, tt) == IF type = "SPLIT" THEN TTYPE_SPLIT ELSE tt

\* records.append(x)
ListAppend(h, ref, x) == [h EXCEPT ![ref] = Append(@, x)]

\* EndOfTransaction that goes on with the same buffer
EndOfTransactionKeepsBuffer(h, recs, tt) ==
    [ heap        |-> h \o << h[recs], <<>> >>,
      transaction |-> QIFTransaction(tt, Len(h) + 1),
      ttype       |-> TTYPE_NORMAL,
      records     |-> recs ]

\* EndOfTransaction that does not reset ttype
EndOfTransactionKeepsType(h, recs, tt) ==
    [ heap        |-> h \o << h[recs], <<>> >>,
      transaction |-> QIFTransaction(tt, Len(h) + 1),
      ttype       |-> tt,
      records     |-> Len(h) + 2 ]

\* EndOfTransaction that hands out the buffer itself and goes on with it
EndOfTransactionShared(h, recs, tt) ==
    [ heap        |-> h,
      transaction |-> QIFTransaction(tt, recs),
      ttype       |-> TTYPE_NORMAL,
      records     |-> recs ]

\* the END branch: the transaction gets a deep copy of the buffer, ttype is
\* reset and records is bound to a new empty list
EndOfTransaction(h, recs, tt) ==
    [ heap        |-> h \o << h[recs], <<>> >>,
      transaction |-> QIFTransaction(tt, Len(h) + 1),
      ttype       |-> TTYPE_NORMAL,
      records     |-> Len(h) + 2 ]

Running == status = "running"

\* the for loop of parse() asks _recordize for its next record: at the
\* first pull, after a record was handled, or when the consumer resumes
\* parse() from its yield
AtRecordize == Running /\ pc # "parse"

\* _recordize has nothing to yield at the cursor
NothingMatches == ~FirstMatch(text, position).matched

\* the else of "if position < len(text)": the cursor is at the end
Exhausted(t, pos) == ~(pos < Len(t))

\* _recordize finds a match, moves the cursor and yields the record
RecordizeYield ==
    /\ AtRecordize
    /\ \E m \in {FirstMatch(text, position)} :
          /\ m.matched
          /\ position' = NextPosition(m)
          /\ r' = RawRecord(m)
          /\ scanned' = Append(scanned, RawRecord(m))
    /\ pc' = "parse"
    /\ UNCHANGED << text, status, error, ttype, records, heap, yielded,
                    ledger, emitted, mutations >>

\* no pattern matches before the end of the text: SyntaxError, out of
\* _recordize and out of parse()
RecordizeRaise ==
    /\ AtRecordize
    /\ NothingMatches
    /\ ~Exhausted(text, position)
    /\ status' = "SyntaxError"
    /\ error' = SyntaxErrorArgs(text, position)
    /\ UNCHANGED << text, position, pc, r, ttype, records, heap, yielded,
                    ledger, scanned, emitted, mutations >>

\* no pattern matches at the end of the text: _recordize returns, the for
\* loop of parse() ends and parse() returns
RecordizeReturn ==
    /\ AtRecordize
    /\ NothingMatches
    /\ Exhausted(text, position)
    /\ status' = "done"
    /\ UNCHANGED << text, position, pc, r, error, ttype, records, heap,
                    yielded, ledger, scanned, emitted, mutations >>

\* the loop body on a record other than END: it is cast and joins the
\* buffer
ParseRecord ==
    /\ Running /\ pc = "parse"
    /\ r.type # "END"
    /\ _record_casts(r).ok
    /\ ttype' = TypeOnRecord(r.type, ttype)
    /\ heap' = ListAppend(heap, records, _record_casts(r).record)
    /\ pc' = "recordize"
    /\ UNCHANGED << text, position, r, status, error, records, yielded,
                    ledger, scanned, emitted, mutations >>

\* the loop body on a record whose cast raises ValueError out of parse()
ParseCastError ==
    /\ Running /\ pc = "parse"
    /\ r.type # "END"
    /\ ~_record_casts(r).ok
    /\ ttype' = TypeOnRecord(r.type, ttype)
    /\ status' = "ValueError"
    /\ UNCHANGED << text, position, pc, r, error, records, heap, yielded,
                    ledger, scanned, emitted, mutations >>

\* the transaction e.transaction is yielded
YieldTransaction(e) ==
    /\ heap' = e.heap
    /\ ttype' = e.ttype
    /\ records' = e.records
    /\ yielded' = Append(yielded, e.transaction)
    /\ emitted' = Append(emitted,
           [ type |-> e.transaction.type,
             records |-> e.heap[e.transaction.records],
             mutations |-> mutations ])

\* the loop body on END: the buffered records are yielded as a transaction
ParseEnd ==
    /\ Running /\ pc = "parse"
    /\ r.type = "END"
    /\ YieldTransaction(EndOfTransaction(heap, records, ttype))
    /\ pc' = "yielded"
    /\ UNCHANGED << text, position, r, status, error, ledger, scanned,
                    mutations >>

NextParse ==
    \/ RecordizeYield
    \/ RecordizeRaise
    \/ RecordizeReturn
    \/ ParseRecord
    \/ ParseCastError
    \/ ParseEnd

----------------------------------------------------------------------------
(* A consumer that changes the records list of a transaction it was handed *)

JunkRecord == QIFRecord("MEMO", [value |-> <<"z">>])

\* list.pop() and item assignment on the list ref
ListShrinks(h, ref) ==
    IF h[ref] = <<>> THEN {}
    ELSE { [h EXCEPT ![ref] = SubSeq(@, 1, Len(@) - 1)],
           [h EXCEPT ![ref] = [@ EXCEPT ![1] = JunkRecord]] }

\* list.append, list.pop and item assignment on the list ref
ListMutations(h, ref) == { ListAppend(h, ref, JunkRecord) } \cup ListShrinks(h, ref)

\* between two pulls, the consumer changes a list it was handed
Mutate ==
    /\ Running /\ pc = "yielded"
    /\ mutations < MaxMutations
    /\ \E k \in 1..Len(yielded) :
          heap' \in ListMutations(heap, yielded[k].records) \ {heap}
    /\ mutations' = mutations + 1
    /\ UNCHANGED << text, position, pc, r, status, error, ttype, records,
                    yielded, ledger, scanned, emitted >>

----------------------------------------------------------------------------
(* qif2ledger.py *)

RECURSIVE LeadingBlanks(_)
\* the length of the run of blanks s starts with
LeadingBlanks(s) ==
    IF s = <<>> \/ Head(s) # SP THEN 0 ELSE 1 + LeadingBlanks(Tail(s))

RECURSIVE SubHardSeparators(_)
\* re.compile(r'[ ]{2,}|[\t]').sub(" ", name): from left to right, a
\* maximal run of two or more blanks, or one tab, becomes one blank
SubHardSeparators(name) ==
    IF name = <<>> THEN <<>>
    ELSE IF LeadingBlanks(name) >= 2
    THEN <<SP>> \o SubHardSeparators(
                       SubSeq(name, LeadingBlanks(name) + 1, Len(name)))
    ELSE IF Head(name) = TAB
    THEN <<SP>> \o SubHardSeparators(Tail(name))
    ELSE <<Head(name)>> \o SubHardSeparators(Tail(name))

ledger_account_name(name) == SubHardSeparators(name)

\* -amount on a double
FloatNeg(a) == [a EXCEPT !.neg = ~@]

\* amount != 0.0 is false for 0.0 and for -0.0
ledger_amount(amount) ==
    IF amount.num # 0 THEN FloatNeg(amount) ELSE amount

RECURSIVE Pad(_, _)
\* s zero-padded on the left to n characters
Pad(s, n) == IF Len(s) >= n THEN s ELSE Pad(<<"0">> \o s, n)

RECURSIVE NatToStr(_)
NatToStr(n) ==
    IF n < 10 THEN <<ToString(n)>>
    ELSE NatToStr(n \div 10) \o <<ToString(n % 10)>>

\* date.strftime("%Y/%m/%d")
Strftime(d) ==
    Pad(NatToStr(d.year), 4) \o <<"/">> \o Pad(NatToStr(d.month), 2)
        \o <<"/">> \o Pad(NatToStr(d.day), 2)

EmptyDict == [k \in {} |-> <<>>]

\* d[k] = v
Put(d, k, v) == (k :> v) @@ d

\* the local names amount and account are unbound until first assigned
Unbound == [bound |-> FALSE]
Bound(v) == [bound |-> TRUE, value |-> v]

\* the locals of qif2ledger before the loop
LedgerLocals == [l |-> EmptyDict, postings |-> <<>>,
                 amount |-> Unbound, account |-> Unbound]

\* the posting of a Split record with value_dict d
SplitPosting(d) ==
    IF "memo" \in DOMAIN d
    THEN [account |-> ledger_account_name(d.category),
          amount |-> ledger_amount(d.amount), memo |-> d.memo]
    ELSE [account |-> ledger_account_name(d.category),
          amount |-> ledger_amount(d.amount)]

\* one iteration of the loop over qif_transaction.records
LedgerRecord(st, rec) ==
    IF rec.type = "DATE"
    THEN [st EXCEPT !.l = Put(@, "date", Strftime(rec.value_dict.date))]
    ELSE IF rec.type = "PAYEE"
    THEN [st EXCEPT !.l = Put(@, "payee", rec.value_dict.value)]
    ELSE IF rec.type \in {"U_AMOUNT", "T_AMOUNT"}
    THEN [st EXCEPT !.amount = Bound(ledger_amount(rec.value_dict.amount))]
    ELSE IF rec.type = "CATEGORY"
    THEN [st EXCEPT !.account = Bound(ledger_account_name(rec.value_dict.value))]
    ELSE IF rec.type = "MEMO"
    THEN [st EXCEPT !.l = Put(@, "memo", rec.value_dict.value)]
    ELSE IF rec.type = "SPLIT"
    THEN [st EXCEPT !.postings = Append(@, SplitPosting(rec.value_dict))]
    ELSE st

RECURSIVE LedgerLoop(_, _)
LedgerLoop(st, rs) ==
    IF rs = <<>> THEN st
    ELSE LedgerLoop(LedgerRecord(st, Head(rs)), Tail(rs))

\* the posting of a transaction without splits
DefaultPosting(st) ==
    [account |-> ledger_account_name(st.account.value),
     amount |-> ledger_amount(st.amount.value)]

\* what follows the loop; ok is false when the default posting reads a
\* local that was never assigned (UnboundLocalError)
LedgerDict(st, asset_account) ==
    IF Len(st.postings) # 0
    THEN [ok |-> TRUE,
          dict |-> Put(st.l, "postings",
                       Append(st.postings, [account |-> asset_account]))]
    ELSE IF st.account.bound /\ st.amount.bound
    THEN [ok |-> TRUE,
          dict |-> Put(st.l, "postings",
                       << DefaultPosting(st), [account |-> asset_account] >>)]
    ELSE [ok |-> FALSE]

\* qif2ledger(qif_transaction, asset_account), on the records rs
qif2ledger(rs, asset_account) ==
    LedgerDict(LedgerLoop(LedgerLocals, rs), asset_account)

\* args.asset_account
AssetAccount == <<"A">>

\* the main loop of qif2ledger.py maps each transaction before it pulls the
\* next one
Converted == Len(ledger) = Len(yielded)

\* the records of the transaction to map next
Pending == heap[yielded[Len(ledger) + 1].records]

\* the consumer maps the transaction it was just handed
Convert ==
    /\ Running /\ pc = "yielded"
    /\ ~Converted
    /\ qif2ledger(Pending, AssetAccount).ok
    /\ ledger' = Append(ledger, qif2ledger(Pending, AssetAccount).dict)
    /\ UNCHANGED << text, position, pc, r, status, error, ttype, records,
                    heap, yielded, scanned, emitted, mutations >>

\* the default posting reads an unbound local: UnboundLocalError
ConvertError ==
    /\ Running /\ pc = "yielded"
    /\ ~Converted
    /\ ~qif2ledger(Pending, AssetAccount).ok
    /\ status' = "UnboundLocalError"
    /\ UNCHANGED << text, position, pc, r, error, ttype, records, heap,
                    yielded, ledger, scanned, emitted, mutations >>

\* the pulls of the main loop of qif2ledger.py
PullYield  == Converted /\ RecordizeYield
PullRaise  == Converted /\ RecordizeRaise
PullReturn == Converted /\ RecordizeReturn

----------------------------------------------------------------------------
(* Specifications *)

\* qif_parser.py: the parser, its consumer only reading the transactions
Next == NextParse

Spec == Init /\ [][Next]_vars

\* the consumer's for loop pulls until the generator ends
FairSpec == FairInit /\ [][Next]_vars /\ WF_vars(Next)

\* the parser with a consumer that mutates what it was handed
NextConsumer == NextParse \/ Mutate

SpecConsumer == Init /\ [][NextConsumer]_vars

\* the parser on one line of each record kind
SpecCast == InitCast /\ [][Next]_vars

\* qif2ledger.py: parse, and map each transaction as it comes
NextLedger ==
    \/ PullYield
    \/ PullRaise
    \/ PullReturn
    \/ ParseRecord
    \/ ParseCastError
    \/ ParseEnd
    \/ Convert
    \/ ConvertError

SpecLedger == InitLedger /\ [][NextLedger]_vars

----------------------------------------------------------------------------
(* What the claims speak of *)

RECURSIVE Groups(_, _, _)
\* the cast records of the raw record stream sc, grouped at each END: buf
\* holds the records since the last END, out the groups already closed
Groups(sc, buf, out) ==
    IF sc = <<>> THEN out
    ELSE IF Head(sc).type = "END" THEN Groups(Tail(sc), <<>>, Append(out, buf))
    ELSE IF ~_record_casts(Head(sc)).ok THEN out
    ELSE Groups(Tail(sc), Append(buf, _record_casts(Head(sc)).record), out)

\* the raw records the loop body of parse() has been through: all those
\* scanned, less the one it is about to handle
Handled ==
    IF Running /\ pc = "parse" THEN SubSeq(scanned, 1, Len(scanned) - 1)
    ELSE scanned

\* the records of the transactions the handled stream calls for
Expected == Groups(Handled, <<>>, <<>>)

HasSplit(rs) == \E i \in 1..Len(rs) : rs[i].type = "SPLIT"

\* C1: the k-th transaction yielded holds exactly the cast records scanned
\* between the (k-1)-th and the k-th END, in file order, never the END
\* itself, and one transaction is yielded per END, in file order.
TransactionGrouping ==
    /\ Len(emitted) = Len(Expected)
    /\ \A k \in 1..Len(emitted) :
          /\ emitted[k].records = Expected[k]
          /\ \A i \in 1..Len(emitted[k].records) :
                emitted[k].records[i].type # "END"

\* two transactions with records were yielded and the parse ended normally
TransactionGroupingWitness ==
    /\ status = "done"
    /\ Len(emitted) >= 2
    /\ emitted[1].records # <<>>
    /\ emitted[2].records # <<>>

\* C2: every transaction yielded is SPLIT exactly when its own records hold
\* a Split record, and NORMAL otherwise.
KindMatchesRecords ==
    \A k \in 1..Len(emitted) :
        /\ emitted[k].type \in {TTYPE_NORMAL, TTYPE_SPLIT}
        /\ (emitted[k].type = TTYPE_SPLIT) <=> HasSplit(emitted[k].records)

\* a NORMAL transaction was yielded right after a SPLIT one
KindMatchesRecordsWitness ==
    \E k \in 2..Len(emitted) :
        emitted[k - 1].type = TTYPE_SPLIT /\ emitted[k].type = TTYPE_NORMAL

\* the state a SyntaxError leaves: its message names the cursor and the
\* text from the cursor on, the cursor is where nothing matches before the
\* end, and the transactions yielded are those of the ENDs scanned
SyntaxErrorState ==
    status = "SyntaxError" =>
        /\ error.position = position
        /\ error.text = Slice(text, position, Len(text))
        /\ error.text # <<>>
        /\ position < Len(text)
        /\ ~FirstMatch(text, position).matched
        /\ Len(emitted) = Len(SelectSeq(scanned, LAMBDA x : x.type = "END"))
        /\ \A k \in 1..Len(emitted) : emitted[k].records = Expected[k]

\* C3: when nothing matches at a cursor before the end of input, parse
\* raises SyntaxError with the cursor position and the unmatched text; the
\* transactions yielded are those whose END lies before it, and nothing is
\* yielded afterwards (the buffered records are not emitted).
LexicalErrorReported ==
    /\ []SyntaxErrorState
    /\ [][(AtRecordize /\ NothingMatches /\ position < Len(text))
             => (status' = "SyntaxError" /\ emitted' = emitted)]_vars
    /\ [][status = "SyntaxError"
             => (status' = status /\ emitted' = emitted /\ yielded' = yielded)]_vars

\* a SyntaxError after a transaction was yielded, with records buffered
LexicalErrorWitness ==
    /\ status = "SyntaxError"
    /\ Len(emitted) >= 1
    /\ heap[records] # <<>>

\* C4: when the input is exhausted with a non-empty buffer and no END, a
\* truncated-transaction error is surfaced: the sequence never ends
\* normally with records left in the buffer.
TruncationSurfaced ==
    status = "done" => heap[records] = <<>>

\* the listed single-line kinds, and those whose value is a string
SingleLineKinds ==
    {"DATE", "T_AMOUNT", "U_AMOUNT", "CLEARED", "PAYEE", "MEMO", "CATEGORY",
     "ADDRESS", "N_REC"}
StringKinds == {"CLEARED", "PAYEE", "MEMO", "CATEGORY", "ADDRESS", "N_REC"}

\* a one-line text less its terminator, LF or CR LF
Unterminated(t) ==
    IF Len(t) >= 2 /\ t[Len(t) - 1] = CR THEN SubSeq(t, 1, Len(t) - 2)
    ELSE SubSeq(t, 1, Len(t) - 1)

\* C5: a valid single-line record, ended by LF or by CR LF, casts to the
\* value its line encodes: the same value with either terminator, and for
\* the string-valued kinds the text between the marker and the terminator.
CastRecoversValue ==
    (Len(scanned) = 1 /\ Len(heap[records]) = 1
        /\ scanned[1].type \in SingleLineKinds) =>
        /\ heap[records][1] =
              _record_casts(RawRecord(
                  FirstMatch(Unterminated(text) \o <<LF>>, 0))).record
        /\ scanned[1].type \in StringKinds =>
              heap[records][1].value_dict.value = Tail(Unterminated(text))

\* the reading of a split block at offset p, line by line: an S line, at
\* most one E line, and a $ line holding an amount
RefAmountLine(t, p) ==
    p < Len(t) /\ At(t, p) = "$" /\ AmountLang(LineBody(t, p))
RefHasMemo(t, p) ==
    /\ LineEnd(t, p) + 1 < Len(t)
    /\ At(t, LineEnd(t, p) + 1) = "E"
    /\ LineEnd(t, LineEnd(t, p) + 1) < Len(t)
    /\ RefAmountLine(t, LineEnd(t, LineEnd(t, p) + 1) + 1)
RefNoMemo(t, p) ==
    LineEnd(t, p) < Len(t) /\ RefAmountLine(t, LineEnd(t, p) + 1)
\* the offset of the $ line of the block at p
RefAmountAt(t, p) ==
    IF RefHasMemo(t, p) THEN LineEnd(t, LineEnd(t, p) + 1) + 1
    ELSE LineEnd(t, p) + 1
\* the amount text of a Split record holds a digit: float() accepts it
RefCastable(x) == PyFloat(Remove(x.value_dict.amount, ",")).ok

\* _recordize at an S line: with the $ line, one SPLIT record over the
\* whole block, its memo set exactly with an E line; else a lexical error
SplitRecognised ==
    (AtRecordize /\ position < Len(text) /\ At(text, position) = "S") =>
        IF RefHasMemo(text, position) \/ RefNoMemo(text, position)
        THEN /\ position' =
                   LineEnd(text, RefAmountAt(text, position)) + 1
             /\ scanned' = Append(scanned, r')
             /\ r'.type = "SPLIT"
             /\ (r'.value_dict.memo # None) <=> RefHasMemo(text, position)
             /\ status' = "running"
             /\ heap' = heap
        ELSE /\ status' = "SyntaxError"
             /\ error'.position = position
             /\ scanned' = scanned
             /\ heap' = heap

\* the loop body on a SPLIT record: one cast record joins the buffer, with
\* a memo exactly when the block had an E line
SplitCast ==
    (Running /\ pc = "parse" /\ r.type = "SPLIT" /\ RefCastable(r)) =>
        /\ status' = "running"
        /\ records' = records
        /\ position' = position
        /\ Len(heap'[records]) = Len(heap[records]) + 1
        /\ heap'[records][Len(heap'[records])].type = "SPLIT"
        /\ DOMAIN heap'[records][Len(heap'[records])].value_dict =
              (IF r.value_dict.memo # None
               THEN {"category", "amount", "memo"}
               ELSE {"category", "amount"})

\* C6: a split block is consumed as one Split record and the cursor skips
\* the whole block; the record has category, amount and memo with an E
\* line, category and amount without; an S line no such $ line follows
\* gives no record and a lexical error at the S line.
SplitAtomic == [][SplitRecognised /\ SplitCast]_vars

\* a split block with a memo was consumed and its transaction yielded
SplitAtomicWitness ==
    \E k \in 1..Len(emitted) : \E i \in 1..Len(emitted[k].records) :
        /\ emitted[k].records[i].type = "SPLIT"
        /\ "memo" \in DOMAIN emitted[k].records[i].value_dict

\* C7: the records of a yielded transaction share nothing with the
\* builder's buffer: whatever the consumer does to the records of a
\* transaction it holds, the transactions yielded afterwards are those the
\* input calls for.
DefensiveCopy ==
    /\ \A k \in 1..Len(yielded) : yielded[k].records # records
    /\ \A j, k \in 1..Len(yielded) :
          j # k => yielded[j].records # yielded[k].records
    /\ \A k \in 1..Len(emitted) :
          emitted[k].mutations > 0 =>
              /\ emitted[k].records = Expected[k]
              /\ (emitted[k].type = TTYPE_SPLIT) <=> HasSplit(Expected[k])

\* a transaction with records was yielded after the consumer changed the
\* records of an earlier one
DefensiveCopyWitness ==
    \E k \in 2..Len(emitted) :
        emitted[k].mutations > 0 /\ emitted[k].records # <<>>

IsNegation(p, a) ==
    p.num = a.num /\ p.exp = a.exp /\ (a.num # 0 => p.neg # a.neg)

RecordsOfKind(rs, K) == SelectSeq(rs, LAMBDA x : x.type \in K)

\* C8: each target-account posting carries the negation of its QIF amount
\* (zero stays zero): that of its Split record, or the T/U amount of a
\* transaction without splits.
PostingsNegated ==
    \A k \in 1..Len(ledger) :
        LET rs     == heap[yielded[k].records]
            splits == RecordsOfKind(rs, {"SPLIT"})
            amts   == RecordsOfKind(rs, {"T_AMOUNT", "U_AMOUNT"})
            posts  == ledger[k].postings
        IN  IF splits # <<>>
            THEN \A i \in 1..Len(splits) :
                    IsNegation(posts[i].amount, splits[i].value_dict.amount)
            ELSE IsNegation(posts[1].amount, amts[Len(amts)].value_dict.amount)

NoHardSeparator(s) ==
    \A i \in 1..Len(s) :
        /\ s[i] # TAB
        /\ i < Len(s) => ~(s[i] = SP /\ s[i + 1] = SP)

\* C10: no account name ledger_account_name returns holds a hard separator,
\* a tab or two blanks in a row.
AccountNamesClean ==
    \A k \in 1..Len(ledger) :
        \A i \in 1..(Len(ledger[k].postings) - 1) :
            NoHardSeparator(ledger[k].postings[i].account)

\* C9: every recognised record moves the cursor past its match and the line
\* terminator, the cursor never passes the end of input by more than one,
\* no more transactions are yielded than the input has characters, and
\* the pulls end: with the generator returning or with an error.
ParseTerminates ==
    /\ [][Len(scanned') > Len(scanned) =>
            /\ position' > position + 1
            /\ position' = LineEnd(text, position' - 1) + 1]_vars
    /\ [](/\ position <= Len(text) + 1
          /\ Len(emitted) <= Len(text)
          /\ status = "done" => position >= Len(text))
    /\ <>(status # "running")

\* a parse that ended normally after several records
ParseTerminatesWitness ==
    status = "done" /\ Len(scanned) >= 3 /\ Len(emitted) >= 1

====
